---------------------------- MODULE Spec2Model ----------------------------
(***************************************************************************)
(* A model of the two straddle scripts of the repository:                  *)
(*   improved_options.py    ("improved"): main() evaluates every symbol of *)
(*       the universe once and then runs manage_open_positions() forever;  *)
(*   alpaca_options_bot.py  ("bot"): main() polls one symbol and, once a   *)
(*       straddle is bought, runs monitor_positions() forever.             *)
(* The broker, the market data service and the clock are the environment:  *)
(* every call to them is one step whose outcome is drawn from a small set. *)
(* Numbers are integers.  A volatility is a number of hundredths, a money  *)
(* amount a number of dollars, and the products with the code's decimal    *)
(* factors (1.2, 1.1, 0.95, 0.8, 0.5, 0.02) are compared after scaling     *)
(* both sides by the factor's denominator.                                 *)
(***************************************************************************)
EXTENDS Integers, Sequences, FiniteSets, TLC

(***************************************************************************)
(* Bounds of the model.                                                    *)
(***************************************************************************)
\* how many symbols of the universe the model runs over
NumSymbols == 2
\* strikes listed in an option chain are 1..MaxStrike
MaxStrike == 3
\* expiration dates are 1..MaxExp
MaxExp == 2
\* an option chain lists at most MaxListed (expiration, strike) pairs
MaxListed == 2
\* length of the contract lists find_nearest_strike_contract is applied to
MaxLen == 3
\* the account holds at most MaxHeld option positions: the broker rejects an
\* order that would take it beyond
MaxHeld == 4

(***************************************************************************)
(* Values of the program.                                                  *)
(***************************************************************************)
\* Python's None where a number is expected
None == -1
\* float('inf'), the initial min_diff
Inf == -2

\* ticker symbols, as sequences of characters
SPY  == <<"S", "P", "Y">>
QQQ  == <<"Q", "Q", "Q">>
IWM  == <<"I", "W", "M">>
NVDA == <<"N", "V", "D", "A">>
PLTR == <<"P", "L", "T", "R">>
RDDT == <<"R", "D", "D", "T">>
LUNR == <<"L", "U", "N", "R">>
TSLA == <<"T", "S", "L", "A">>

\* the universe of improved_options.py
AllSymbols == <<SPY, QQQ, IWM, NVDA, PLTR, RDDT, LUNR, TSLA>>

\* the part of the universe the model runs over
symbols == SubSeq(AllSymbols, 1, NumSymbols)

Digits == <<"0", "1", "2", "3", "4", "5", "6", "7", "8", "9">>

Strikes == 1..MaxStrike
Expirations == 1..MaxExp
Kinds == {"call", "put"}

\* the OCC symbol of an option: underlying, expiration, C or P, strike
OccSymbol(und, exp, kind, strike) ==
    und \o <<Digits[exp + 1], IF kind = "call" THEN "C" ELSE "P", Digits[strike + 1]>>

\* an option contract as the broker lists it
Contract(und, exp, kind, strike) ==
    [symbol |-> OccSymbol(und, exp, kind, strike), underlying |-> und,
     type |-> kind, strike_price |-> strike, expiration_date |-> exp]

\* Python's None where a contract is expected
NoContract ==
    [symbol |-> <<>>, underlying |-> <<>>, type |-> "none",
     strike_price |-> 0, expiration_date |-> 0]

Abs(x) == IF x < 0 THEN -x ELSE x

\* str.startswith
StartsWith(s, prefix) ==
    /\ Len(prefix) <= Len(s)
    /\ SubSeq(s, 1, Len(prefix)) = prefix

(***************************************************************************)
(* find_nearest_strike_contract: the loop over the contracts, carrying     *)
(* closest_contract and min_diff.                                          *)
(***************************************************************************)
\* the comparison with a contract as near taking over
LessThanMin_OrEqual(diff, min_diff) == min_diff = Inf \/ diff <= min_diff

\* diff < min_diff, with min_diff possibly float('inf')
LessThanMin(diff, min_diff) == min_diff = Inf \/ diff < min_diff

\* the type test of the loop body
WrongType(contract, is_call) ==
    contract.type # (IF is_call THEN "call" ELSE "put")

\* the OTM test with the at-the-money strike let through
SkippedAsITM_Strict(strike, target_price, is_call, otm_only) ==
    /\ otm_only
    /\ \/ is_call /\ strike < target_price
       \/ ~is_call /\ strike > target_price

\* the OTM test of the loop body: TRUE when the contract is skipped
SkippedAsITM(strike, target_price, is_call, otm_only) ==
    /\ otm_only
    /\ \/ is_call /\ strike <= target_price
       \/ ~is_call /\ strike >= target_price

\* one iteration of the loop: acc is [closest_contract, min_diff]
NearestStep(acc, contract, target_price, is_call, otm_only) ==
    IF WrongType(contract, is_call)
    THEN acc
    ELSE IF SkippedAsITM(contract.strike_price, target_price, is_call, otm_only)
    THEN acc
    ELSE LET diff == Abs(contract.strike_price - target_price)
         IN  IF LessThanMin(diff, acc.min_diff)
             THEN [closest_contract |-> contract, min_diff |-> diff]
             ELSE acc

RECURSIVE NearestLoop(_, _, _, _, _, _)
NearestLoop(contracts, i, acc, target_price, is_call, otm_only) ==
    IF i > Len(contracts)
    THEN acc
    ELSE NearestLoop(contracts, i + 1,
                     NearestStep(acc, contracts[i], target_price, is_call, otm_only),
                     target_price, is_call, otm_only)

find_nearest_strike_contract(contracts, target_price, is_call, otm_only) ==
    IF contracts = <<>>
    THEN NoContract
    ELSE NearestLoop(contracts, 1,
                     [closest_contract |-> NoContract, min_diff |-> Inf],
                     target_price, is_call, otm_only).closest_contract

(***************************************************************************)
(* The values the environment may hand to the scripts.                     *)
(***************************************************************************)
\* volatilities are multiples of 5 (historical) and 6k, 6k + 1 (implied), so
\* that current_iv = 1.2 * historical_iv happens (6 against 5)
MaxVol == 1
HVValues == {5 * k : k \in 0..MaxVol}
IVValues == UNION {{6 * k, 6 * k + 1} : k \in 0..MaxVol}

\* len(historical_prices): one price, two, just under 20 and 20
PriceCounts == {1, 2, 19, 20}

\* the underlying's last trade price
Prices == 1..MaxStrike

\* option chains: at most MaxListed (expiration, strike) pairs, a call and a
\* put listed at each, in the order of expiration and strike
Listings ==
    {l \in SUBSET (Expirations \X Strikes) : Cardinality(l) <= MaxListed}

PairBefore(a, b) == a[1] < b[1] \/ (a[1] = b[1] /\ a[2] < b[2])

RECURSIVE SortedPairs(_)
SortedPairs(l) ==
    IF l = {}
    THEN <<>>
    ELSE LET first == CHOOSE a \in l : \A b \in l \ {a} : PairBefore(a, b)
         IN  <<first>> \o SortedPairs(l \ {first})

\* the contracts of one kind of a listing, as the broker's response lists them
ContractsOfKind(und, listing, kind) ==
    LET pairs == SortedPairs(listing)
    IN  [i \in 1..Len(pairs) |-> Contract(und, pairs[i][1], kind, pairs[i][2])]

\* options_buying_power, and equity, in dollars
BuyingPowers == {-100, 500, 1000, 5000}

\* close_price of a contract, in dollars
ClosePrices == {0, 150}

\* cost_basis and market_value the broker reports for a position
CostBases == {1000}
MarketValues == {950, 1000, 1100, 1199}

\* the account's equity, the cost of a straddle as execute_straddle computes
\* it, and the market value of one leg
Equities == {-50000, 40000, 47500}
EntryCosts == {1000}
LegValues == {250, 750}

\* the average of the implied volatilities of the two contracts bought
EntryIVs == {6 * k + 1 : k \in 0..MaxVol}

VARIABLES
    script,      \* the script that runs: "improved" or "bot"; "" in function runs
    broker,      \* the option symbols the broker account holds a position in
    marketOpen,  \* whether the clock is between 09:30 and 16:00 US Eastern
    pc,          \* the script's position
    loc,         \* the script's local variables
    submitted,   \* the order requests the last step submitted to the broker
    closeReqs,   \* the close requests the last step sent to the broker
    fn,          \* the function a function-level specification applies
    args,        \* its arguments
    result       \* its result

vars == <<script, broker, marketOpen, pc, loc, submitted, closeReqs, fn, args, result>>

(***************************************************************************)
(* improved_options.py                                                     *)
(***************************************************************************)
\* the locals of execute_volatility_straddle before it has set any
NoEntryLocals ==
    [n_prices |-> None, historical_iv |-> None, current_iv |-> None,
     call_contract |-> NoContract, put_contract |-> NoContract,
     position_size |-> None]

\* the loop variable of the review before the loop has set it
NoPosition == [symbol |-> <<>>, cost_basis |-> None, market_value |-> None]

\* the locals of improved_options.py as main() starts
ImprovedLocals ==
    [phase |-> "main", idx |-> 1, positions |-> <<>>, j |-> 0,
     position |-> NoPosition, entry |-> NoEntryLocals]

\* the symbol execute_volatility_straddle is evaluating
symbol == symbols[loc.idx]

\* execute_volatility_straddle returns to its caller's for loop, and its
\* locals are gone
ReturnFromEntry(l) ==
    IF l.idx < Len(symbols)
    THEN /\ pc' = "e_positions"
         /\ loc' = [l EXCEPT !.idx = l.idx + 1, !.entry = NoEntryLocals]
    ELSE /\ pc' = "m_positions"
         /\ loc' = [l EXCEPT !.phase = "manage", !.idx = 1,
                             !.entry = NoEntryLocals]

\* an exception leaves execute_volatility_straddle: main() does not catch it,
\* manage_open_positions catches it outside its for loop and sleeps
RaiseFromEntry(l) ==
    IF l.phase = "main"
    THEN /\ pc' = "crashed"
         /\ loc' = [l EXCEPT !.entry = NoEntryLocals]
    ELSE /\ pc' = "m_positions"
         /\ loc' = [l EXCEPT !.idx = 1, !.entry = NoEntryLocals]

\* the positions get_positions returns: the broker's, or [] on an error
get_positions(ok) == IF ok THEN broker ELSE {}

\* lines 485-489: skip a symbol that has a position
PositionExists(positions, sym) ==
    \E p \in positions : StartsWith(p, sym)

EntryPositions ==
    /\ script = "improved"
    /\ pc = "e_positions"
    /\ \E ok \in BOOLEAN :
        IF PositionExists(get_positions(ok), symbol)
        THEN ReturnFromEntry(loc)
        ELSE pc' = "e_volatility" /\ loc' = loc
    /\ submitted' = <<>>
    /\ closeReqs' = <<>>
    /\ UNCHANGED <<script, broker, marketOpen, fn, args, result>>

\* get_historical_volatility of improved_options.py: n prices, some NaN or
\* none, and the annualized deviation v of the returns
get_historical_volatility(n, has_nan, v) ==
    IF n < 2 THEN None
    ELSE IF has_nan THEN None
    ELSE v

\* the entry condition with the boundary let through
EntryCondition_AtLeast(current_iv, historical_iv) ==
    10 * current_iv >= 12 * historical_iv

\* the entry condition, current_iv > 1.2 * historical_iv
EntryCondition(current_iv, historical_iv) ==
    10 * current_iv > 12 * historical_iv

EntryVolatility ==
    /\ script = "improved"
    /\ pc = "e_volatility"
    /\ \E n \in PriceCounts, has_nan \in BOOLEAN, v \in HVValues,
          iv \in IVValues \cup {None} :
        LET hv == get_historical_volatility(n, has_nan, v)
            l == [loc EXCEPT !.entry.n_prices = n,
                             !.entry.historical_iv = hv,
                             !.entry.current_iv = iv]
        IN  IF hv = None \/ iv = None
            THEN ReturnFromEntry(l)
            ELSE IF EntryCondition(iv, hv)
            THEN pc' = "e_price" /\ loc' = l
            ELSE ReturnFromEntry(l)
    /\ submitted' = <<>>
    /\ closeReqs' = <<>>
    /\ UNCHANGED <<script, broker, marketOpen, fn, args, result>>

\* lines 503-506; current_price is only printed afterwards (lines 527-529)
\* and the model does not keep it, nor the length of the price series
EntryPrice ==
    /\ script = "improved"
    /\ pc = "e_price"
    /\ \E price \in Prices \cup {None} :
        IF price = None
        THEN ReturnFromEntry(loc)
        ELSE pc' = "e_select" /\ loc' = [loc EXCEPT !.entry.n_prices = None]
    /\ submitted' = <<>>
    /\ closeReqs' = <<>>
    /\ UNCHANGED <<script, broker, marketOpen, fn, args, result>>

\* get_option_contracts: the call response followed by the put response, or []
get_option_contracts(und, listing, ok) ==
    IF ok
    THEN ContractsOfKind(und, listing, "call") \o ContractsOfKind(und, listing, "put")
    ELSE <<>>

\* find_suitable_contracts: <<call_contract, put_contract>>, or two None
find_suitable_contracts(contracts, current_price) ==
    IF contracts = <<>>
    THEN <<NoContract, NoContract>>
    ELSE IF current_price = None
    THEN <<NoContract, NoContract>>
    ELSE LET call_contract ==
                 find_nearest_strike_contract(contracts, current_price, TRUE, TRUE)
             put_contract ==
                 find_nearest_strike_contract(contracts, current_price, FALSE, TRUE)
         IN  IF call_contract # NoContract /\ put_contract # NoContract
             THEN <<call_contract, put_contract>>
             ELSE <<NoContract, NoContract>>

EntrySelect ==
    /\ script = "improved"
    /\ pc = "e_select"
    /\ \E listing \in Listings, ok \in BOOLEAN, price \in Prices \cup {None} :
        LET found == find_suitable_contracts(
                         get_option_contracts(symbol, listing, ok), price)
            l == [loc EXCEPT !.entry.call_contract = found[1],
                             !.entry.put_contract = found[2]]
        IN  IF found[1] # NoContract /\ found[2] # NoContract
            THEN pc' = "e_market" /\ loc' = l
            ELSE ReturnFromEntry(l)
    /\ submitted' = <<>>
    /\ closeReqs' = <<>>
    /\ UNCHANGED <<script, broker, marketOpen, fn, args, result>>

\* is_market_open, read off the clock
is_market_open == marketOpen

EntryMarket ==
    /\ script = "improved"
    /\ pc = "e_market"
    /\ IF ~is_market_open
       THEN ReturnFromEntry(loc)
       ELSE pc' = "e_account" /\ loc' = loc
    /\ submitted' = <<>>
    /\ closeReqs' = <<>>
    /\ UNCHANGED <<script, broker, marketOpen, fn, args, result>>

\* lines 519-521: the size of the position
StraddleCost(call_close, put_close) == (call_close + put_close) * 2

Min(a, b) == IF a < b THEN a ELSE b

PositionSize(options_buying_power, cost_basis) ==
    Min(options_buying_power \div cost_basis, 1)

EntryAccount ==
    /\ script = "improved"
    /\ pc = "e_account"
    /\ \E ok \in BOOLEAN, bp \in BuyingPowers,
          call_close \in ClosePrices, put_close \in ClosePrices :
        LET cost == StraddleCost(call_close, put_close)
        IN  IF ~ok \/ cost = 0
            THEN RaiseFromEntry(loc)
            ELSE /\ pc' = "e_order"
                 /\ loc' = [loc EXCEPT !.entry.position_size = PositionSize(bp, cost)]
    /\ submitted' = <<>>
    /\ closeReqs' = <<>>
    /\ UNCHANGED <<script, broker, marketOpen, fn, args, result>>

\* the broker takes an order only for a quantity of at least 1, and only while
\* the account stays within MaxHeld positions
BrokerAccepts(legs, qty) ==
    /\ qty >= 1
    /\ Cardinality(broker \cup legs) <= MaxHeld

\* place_straddle_order: one multi-leg market order for both contracts
StraddleOrder(call_contract, put_contract, quantity, accepted) ==
    [order_class |-> "mleg", underlying |-> call_contract.underlying,
     legs |-> <<call_contract, put_contract>>, qty |-> quantity,
     accepted |-> accepted]

EntryOrder ==
    /\ script = "improved"
    /\ pc = "e_order"
    /\ \E accepted \in BOOLEAN :
        LET legs == {loc.entry.call_contract.symbol, loc.entry.put_contract.symbol}
        IN  /\ accepted => BrokerAccepts(legs, loc.entry.position_size)
            /\ submitted' = <<StraddleOrder(loc.entry.call_contract,
                                            loc.entry.put_contract,
                                            loc.entry.position_size, accepted)>>
            /\ broker' = IF accepted THEN broker \cup legs ELSE broker
    /\ pc' = "e_done"
    /\ closeReqs' = <<>>
    /\ UNCHANGED <<script, marketOpen, loc, fn, args, result>>

\* lines 526-529 print, and execute_volatility_straddle returns
EntryDone ==
    /\ script = "improved"
    /\ pc = "e_done"
    /\ ReturnFromEntry(loc)
    /\ submitted' = <<>>
    /\ closeReqs' = <<>>
    /\ UNCHANGED <<script, broker, marketOpen, fn, args, result>>

\* the broker's position list, in the order the broker lists it
RECURSIVE PositionList(_)
PositionList(held) ==
    IF held = {}
    THEN <<>>
    ELSE LET first == CHOOSE p \in held : TRUE
         IN  <<first>> \o PositionList(held \ {first})

\* lines 415-419: the snapshot of the positions; nothing to do without any
ManagePositions ==
    /\ script = "improved"
    /\ pc = "m_positions"
    /\ \E ok \in BOOLEAN :
        LET positions == PositionList(get_positions(ok))
        IN  IF positions = <<>>
            THEN /\ pc' = "m_positions"
                 /\ loc' = [loc EXCEPT !.positions = <<>>, !.j = 0]
            ELSE /\ pc' = "m_review"
                 /\ loc' = [loc EXCEPT !.positions = positions, !.j = 1]
    /\ submitted' = <<>>
    /\ closeReqs' = <<>>
    /\ UNCHANGED <<script, broker, marketOpen, fn, args, result>>

\* str.replace(old, new) and the test 'c' in s
Replace(s, old, new) == [i \in 1..Len(s) |-> IF s[i] = old THEN new ELSE s[i]]

Contains(s, c) == \E i \in 1..Len(s) : s[i] = c

\* lines 439 and 454: the symbol of the other leg
corresponding_symbol(position_symbol) ==
    IF Contains(position_symbol, "C")
    THEN Replace(position_symbol, "C", "P")
    ELSE Replace(position_symbol, "P", "C")

\* lines 428-431 and 446: the thresholds on the position's market value
TakeProfit(market_value, cost_basis) == 10 * market_value >= 11 * cost_basis

StopLoss(market_value, cost_basis) == 100 * market_value <= 95 * cost_basis

\* the symbols one review of a position asks the broker to close, in order
ReviewCloses(position_symbol, positions, market_value, cost_basis) ==
    IF TakeProfit(market_value, cost_basis) \/ StopLoss(market_value, cost_basis)
    THEN (IF \E i \in 1..Len(positions) : positions[i] = position_symbol
          THEN <<position_symbol>> ELSE <<>>)
         \o
         (IF \E i \in 1..Len(positions) :
                 positions[i] = corresponding_symbol(position_symbol)
          THEN <<corresponding_symbol(position_symbol)>> ELSE <<>>)
    ELSE <<>>

\* close_position for each symbol in turn: the broker closes a position it
\* holds when it accepts the request (oks[i]), and fails the request otherwise
RECURSIVE CloseAll(_, _, _, _)
CloseAll(syms, oks, i, held) ==
    IF i > Len(syms)
    THEN [requests |-> <<>>, closed |-> <<>>, held |-> held]
    ELSE LET closed == oks[i] /\ syms[i] \in held
             rest == CloseAll(syms, oks, i + 1,
                              IF closed THEN held \ {syms[i]} ELSE held)
         IN  [requests |-> <<syms[i]>> \o rest.requests,
              closed |-> <<closed>> \o rest.closed,
              held |-> rest.held]

\* lines 421-462: the review of one position of the snapshot
ManageReview ==
    /\ script = "improved"
    /\ pc = "m_review"
    /\ loc.j <= Len(loc.positions)
    /\ \E cost_basis \in CostBases, market_value \in MarketValues :
        LET position == [symbol |-> loc.positions[loc.j],
                         cost_basis |-> cost_basis, market_value |-> market_value]
            syms == ReviewCloses(position.symbol, loc.positions,
                                 market_value, cost_basis)
        IN  \E oks \in [1..Len(syms) -> BOOLEAN] :
                LET done == CloseAll(syms, oks, 1, broker)
                IN  /\ oks = done.closed
                    /\ closeReqs' = done.requests
                    /\ broker' = done.held
                    /\ pc' = "m_review"
                    /\ loc' = [loc EXCEPT !.position = position, !.j = loc.j + 1]
    /\ submitted' = <<>>
    /\ UNCHANGED <<script, marketOpen, fn, args, result>>

\* lines 464-467: the review is over, the loop over the symbols starts
ManageEntries ==
    /\ script = "improved"
    /\ pc = "m_review"
    /\ loc.j > Len(loc.positions)
    /\ pc' = "e_positions"
    /\ loc' = [loc EXCEPT !.positions = <<>>, !.j = 0, !.position = NoPosition,
                          !.idx = 1]
    /\ submitted' = <<>>
    /\ closeReqs' = <<>>
    /\ UNCHANGED <<script, broker, marketOpen, fn, args, result>>

(***************************************************************************)
(* alpaca_options_bot.py                                                   *)
(***************************************************************************)
\* the symbol main() is started with
BotSymbol == SPY

\* the locals of main(), execute_straddle and monitor_positions as main() starts
BotLocals ==
    [equity |-> None, n_closes |-> None, hv |-> None, current_iv |-> None,
     max_quantity |-> None, expirations |-> <<>>,
     call |-> NoContract, put |-> NoContract,
     active_positions |-> <<>>, call_value |-> None, put_value |-> None,
     iv_error |-> "", error |-> ""]

\* main() sleeps an hour and starts its loop again; the model keeps the locals
\* of main() up to the entry decision and forgets them after
BotSleep(l) ==
    /\ pc' = "b_account"
    /\ loc' = [l EXCEPT !.equity = None, !.n_closes = None, !.hv = None,
                        !.current_iv = None, !.max_quantity = None,
                        !.expirations = <<>>, !.call = NoContract,
                        !.put = NoContract]

\* line 178; an error here is main()'s "Fatal Error"
BotAccount ==
    /\ script = "bot"
    /\ pc = "b_account"
    /\ \E ok \in BOOLEAN, equity \in Equities :
        IF ok
        THEN pc' = "b_hv" /\ loc' = [loc EXCEPT !.equity = equity]
        ELSE pc' = "stopped" /\ loc' = loc
    /\ submitted' = <<>>
    /\ closeReqs' = <<>>
    /\ UNCHANGED <<script, broker, marketOpen, fn, args, result>>

\* get_historical_volatility of alpaca_options_bot.py: n closes after the
\* forward fill, and the annualized deviation v of the log returns
bot_get_historical_volatility(ok, n, v) ==
    IF ~ok THEN 0
    ELSE IF n < 20 THEN 0
    ELSE v

BotHV ==
    /\ script = "bot"
    /\ pc = "b_hv"
    /\ \E ok \in BOOLEAN, n \in PriceCounts, v \in HVValues :
        /\ pc' = "b_iv"
        /\ loc' = [loc EXCEPT !.n_closes = IF ok THEN n ELSE None,
                              !.hv = bot_get_historical_volatility(ok, n, v)]
    /\ submitted' = <<>>
    /\ closeReqs' = <<>>
    /\ UNCHANGED <<script, broker, marketOpen, fn, args, result>>

\* int(): towards zero
Trunc(a, b) == IF a >= 0 THEN a \div b ELSE -((-a) \div b)

\* lines 187-189: int((equity * 0.02) / straddle_price) with straddle_price
\* (5 + 4.5) * 100, capped at 1
BotQuantity(equity) == Min(Trunc(equity * 2, 100 * 950), 1)

\* line 185
BotEntryCondition(current_iv, hv, active_positions) ==
    10 * current_iv > hv * 12 /\ active_positions = <<>>

\* get_current_iv of alpaca_options_bot.py returns the average of two implied
\* volatilities, and 0.0 when it could not find them
BotIV ==
    /\ script = "bot"
    /\ pc = "b_iv"
    /\ \E iv \in IVValues :
        LET l == [loc EXCEPT !.current_iv = iv]
            q == BotQuantity(loc.equity)
        IN  IF BotEntryCondition(iv, loc.hv, loc.active_positions)
            THEN IF q > 0
                 THEN pc' = "x_chain" /\ loc' = [l EXCEPT !.max_quantity = q]
                 ELSE BotSleep(l)
            ELSE BotSleep(l)
    /\ submitted' = <<>>
    /\ closeReqs' = <<>>
    /\ UNCHANGED <<script, broker, marketOpen, fn, args, result>>

\* lines 111-113; min() of no expiration raises, and execute_straddle returns None
StraddleChain ==
    /\ script = "bot"
    /\ pc = "x_chain"
    /\ \E ok \in BOOLEAN, listing \in Listings :
        LET contracts == get_option_contracts(BotSymbol, listing, ok)
        IN  IF contracts = <<>>
            THEN BotSleep(loc)
            ELSE /\ pc' = "x_price"
                 /\ loc' = [loc EXCEPT !.expirations = contracts,
                                       !.equity = None]
    /\ submitted' = <<>>
    /\ closeReqs' = <<>>
    /\ UNCHANGED <<script, broker, marketOpen, fn, args, result>>

\* min() over the expiration dates
MinExpiration(contracts) ==
    CHOOSE e \in {contracts[i].expiration_date : i \in 1..Len(contracts)} :
        \A i \in 1..Len(contracts) : e <= contracts[i].expiration_date

\* line 118: the strike of the nearest expiration that is nearest to the
\* price, the lowest of them when two are as near
AtmStrike(contracts, nearest_exp, last_price) ==
    LET strikes == {contracts[i].strike_price :
                        i \in {k \in 1..Len(contracts) :
                                   contracts[k].expiration_date = nearest_exp}}
        nearest == {x \in strikes :
                        \A y \in strikes : Abs(x - last_price) <= Abs(y - last_price)}
    IN  CHOOSE x \in nearest : \A y \in nearest : x <= y

\* lines 121-122: next() takes the first contract of the list with the strike
\* and the type, whatever its expiration
FirstWith(contracts, strike, kind) ==
    LET hits == {i \in 1..Len(contracts) :
                     /\ contracts[i].strike_price = strike
                     /\ contracts[i].type = kind}
    IN  IF hits = {}
        THEN NoContract
        ELSE contracts[CHOOSE i \in hits : \A k \in hits : i <= k]

\* lines 116-122
StraddlePrice ==
    /\ script = "bot"
    /\ pc = "x_price"
    /\ \E last_price \in Prices \cup {None} :
        IF last_price = None
        THEN BotSleep(loc)
        ELSE LET atm_strike == AtmStrike(loc.expirations,
                                         MinExpiration(loc.expirations), last_price)
                 call == FirstWith(loc.expirations, atm_strike, "call")
                 put == FirstWith(loc.expirations, atm_strike, "put")
             IN  IF call = NoContract \/ put = NoContract
                 THEN BotSleep(loc)
                 ELSE /\ pc' = "x_call"
                      /\ loc' = [loc EXCEPT !.call = call, !.put = put,
                                            !.expirations = <<>>]
    /\ submitted' = <<>>
    /\ closeReqs' = <<>>
    /\ UNCHANGED <<script, broker, marketOpen, fn, args, result>>

\* a single-leg market order to buy
LegOrder(contract, quantity, accepted) ==
    [order_class |-> "simple", underlying |-> contract.underlying,
     legs |-> <<contract>>, qty |-> quantity, accepted |-> accepted]

\* line 141: the call order; a rejection raises and execute_straddle returns None
StraddleCall ==
    /\ script = "bot"
    /\ pc = "x_call"
    /\ \E accepted \in BOOLEAN :
        /\ accepted => BrokerAccepts({loc.call.symbol}, loc.max_quantity)
        /\ submitted' = <<LegOrder(loc.call, loc.max_quantity, accepted)>>
        /\ IF accepted
           THEN /\ broker' = broker \cup {loc.call.symbol}
                /\ pc' = "x_put"
                /\ loc' = loc
           ELSE /\ broker' = broker
                /\ BotSleep(loc)
    /\ closeReqs' = <<>>
    /\ UNCHANGED <<script, marketOpen, fn, args, result>>

\* the record of an open straddle
StraddlePosition(call_contract, put_contract, entry_iv, entry_price, quantity) ==
    [call_contract |-> call_contract, put_contract |-> put_contract,
     entry_iv |-> entry_iv, entry_price |-> entry_price, quantity |-> quantity]

\* lines 142-145 and 193-195: the put order, the record of the position, and
\* monitor_positions; the contracts' implied volatilities may be missing, and
\* then line 145 raises after both orders
StraddlePut ==
    /\ script = "bot"
    /\ pc = "x_put"
    /\ \E accepted \in BOOLEAN, entry_iv \in EntryIVs \cup {None},
          total_cost \in EntryCosts :
        /\ accepted => BrokerAccepts({loc.put.symbol}, loc.max_quantity)
        /\ submitted' = <<LegOrder(loc.put, loc.max_quantity, accepted)>>
        /\ broker' = IF accepted THEN broker \cup {loc.put.symbol} ELSE broker
        /\ IF accepted /\ entry_iv # None
           THEN /\ pc' = "m_iv"
                /\ loc' = [BotLocals EXCEPT !.active_positions =
                              <<StraddlePosition(loc.call, loc.put, entry_iv,
                                                 total_cost, loc.max_quantity)>>]
           ELSE BotSleep(loc)
    /\ closeReqs' = <<>>
    /\ UNCHANGED <<script, marketOpen, fn, args, result>>

\* monitor_positions sleeps and starts its loop again
MonitorSleep(l) ==
    /\ pc' = "m_iv"
    /\ loc' = [l EXCEPT !.current_iv = None, !.call_value = None,
                        !.put_value = None, !.iv_error = "", !.error = ""]

\* an exception in the loop body of monitor_positions: lines 170-172
MonitorRaise(l, e) ==
    /\ pc' = "m_error"
    /\ loc' = [l EXCEPT !.current_iv = None, !.call_value = None,
                        !.put_value = None, !.iv_error = "", !.error = e]

\* what the broker answers to get_position and close_position for a symbol
BrokerError(sym, ok) ==
    IF sym \notin broker THEN "position does not exist"
    ELSE IF ~ok THEN "request failed"
    ELSE ""

\* line 171-172: the error is printed, the loop sleeps a minute
MonitorError ==
    /\ script = "bot"
    /\ pc = "m_error"
    /\ MonitorSleep(loc)
    /\ submitted' = <<>>
    /\ closeReqs' = <<>>
    /\ UNCHANGED <<script, broker, marketOpen, fn, args, result>>

\* get_current_iv of alpaca_options_bot.py: the average v of the implied
\* volatilities of the two ATM contracts, and 0.0 after any failure
bot_get_current_iv(ok, v) == IF ok THEN v ELSE 0

\* line 154, and the for loop over no position; iv_error is what line 105
\* printed
MonitorIV ==
    /\ script = "bot"
    /\ pc = "m_iv"
    /\ \E ok \in BOOLEAN, v \in IVValues :
        IF loc.active_positions = <<>>
        THEN MonitorSleep(loc)
        ELSE /\ pc' = "m_call_value"
             /\ loc' = [loc EXCEPT !.current_iv = bot_get_current_iv(ok, v),
                                   !.iv_error = IF ok THEN "" ELSE "IV Error"]
    /\ submitted' = <<>>
    /\ closeReqs' = <<>>
    /\ UNCHANGED <<script, broker, marketOpen, fn, args, result>>

\* the position the for loop of monitor_positions is at
pos == loc.active_positions[1]

\* line 156: get_position raises for a symbol the account has no position in
MonitorCallValue ==
    /\ script = "bot"
    /\ pc = "m_call_value"
    /\ \E ok \in BOOLEAN, value \in LegValues :
        LET e == BrokerError(pos.call_contract.symbol, ok)
        IN  IF e = ""
            THEN pc' = "m_put_value" /\ loc' = [loc EXCEPT !.call_value = value]
            ELSE MonitorRaise(loc, e)
    /\ submitted' = <<>>
    /\ closeReqs' = <<>>
    /\ UNCHANGED <<script, broker, marketOpen, fn, args, result>>

\* line 162: abs(pl_pct) >= 0.5 or current_iv < entry_iv * 0.8
ExitCondition(total_value, entry_price, current_iv, entry_iv) ==
    \/ 2 * Abs(total_value - entry_price) >= entry_price
    \/ 10 * current_iv < entry_iv * 8

\* lines 157-162
MonitorPutValue ==
    /\ script = "bot"
    /\ pc = "m_put_value"
    /\ \E ok \in BOOLEAN, value \in LegValues :
        LET e == BrokerError(pos.put_contract.symbol, ok)
            l == [loc EXCEPT !.put_value = value]
        IN  IF e = ""
            THEN IF ExitCondition(loc.call_value + value, pos.entry_price,
                                  loc.current_iv, pos.entry_iv)
                 THEN pc' = "m_close_call" /\ loc' = l
                 ELSE pc' = "m_checked" /\ loc' = l
            ELSE MonitorRaise(loc, e)
    /\ submitted' = <<>>
    /\ closeReqs' = <<>>
    /\ UNCHANGED <<script, broker, marketOpen, fn, args, result>>

\* line 168: no exit for the position, the loop sleeps
MonitorChecked ==
    /\ script = "bot"
    /\ pc = "m_checked"
    /\ MonitorSleep(loc)
    /\ submitted' = <<>>
    /\ closeReqs' = <<>>
    /\ UNCHANGED <<script, broker, marketOpen, fn, args, result>>

\* line 164: close_position raises when the broker fails the request or has
\* no such position
MonitorCloseCall ==
    /\ script = "bot"
    /\ pc = "m_close_call"
    /\ \E ok \in BOOLEAN :
        /\ closeReqs' = <<pos.call_contract.symbol>>
        /\ IF BrokerError(pos.call_contract.symbol, ok) = ""
           THEN /\ broker' = broker \ {pos.call_contract.symbol}
                /\ pc' = "m_close_put"
                /\ loc' = loc
           ELSE /\ broker' = broker
                /\ MonitorRaise(loc, BrokerError(pos.call_contract.symbol, ok))
    /\ submitted' = <<>>
    /\ UNCHANGED <<script, marketOpen, fn, args, result>>

\* the close of the put leg with the position dropped whatever the broker
\* answers
MonitorClosePut_DropsOnError ==
    /\ script = "bot"
    /\ pc = "m_close_put"
    /\ \E ok \in BOOLEAN :
        /\ closeReqs' = <<pos.put_contract.symbol>>
        /\ IF BrokerError(pos.put_contract.symbol, ok) = ""
           THEN /\ broker' = broker \ {pos.put_contract.symbol}
                /\ MonitorSleep([loc EXCEPT !.active_positions = <<>>])
           ELSE /\ broker' = broker
                /\ MonitorRaise([loc EXCEPT !.active_positions = <<>>],
                                BrokerError(pos.put_contract.symbol, ok))
    /\ submitted' = <<>>
    /\ UNCHANGED <<script, marketOpen, fn, args, result>>

\* lines 165-166
MonitorClosePut ==
    /\ script = "bot"
    /\ pc = "m_close_put"
    /\ \E ok \in BOOLEAN :
        /\ closeReqs' = <<pos.put_contract.symbol>>
        /\ IF BrokerError(pos.put_contract.symbol, ok) = ""
           THEN /\ broker' = broker \ {pos.put_contract.symbol}
                /\ MonitorSleep([loc EXCEPT !.active_positions = <<>>])
           ELSE /\ broker' = broker
                /\ MonitorRaise(loc, BrokerError(pos.put_contract.symbol, ok))
    /\ submitted' = <<>>
    /\ UNCHANGED <<script, marketOpen, fn, args, result>>

(***************************************************************************)
(* The environment.                                                        *)
(***************************************************************************)
Running == script # "" /\ pc \notin {"crashed", "stopped", "interrupted"}

\* Ctrl-C: KeyboardInterrupt is raised wherever alpaca_options_bot.py is, no
\* `except Exception` catches it, and main() prints "Bot stopped by user"
\* (lines 199-200) and returns
Interrupt ==
    /\ script = "bot"
    /\ Running
    /\ pc' = "interrupted"
    /\ UNCHANGED <<script, broker, marketOpen, loc, submitted, closeReqs,
                   fn, args, result>>

\* the clock passes 09:30 or 16:00
ClockTick ==
    /\ Running
    /\ marketOpen' = ~marketOpen
    /\ UNCHANGED <<script, broker, pc, loc, submitted, closeReqs, fn, args, result>>

(***************************************************************************)
(* Spec: one of the two scripts, started on an account without positions    *)
(* that nothing else trades on.                                            *)
(***************************************************************************)
Init ==
    /\ script \in {"improved", "bot"}
    /\ broker = {}
    /\ marketOpen \in BOOLEAN
    /\ pc = (IF script = "improved" THEN "e_positions" ELSE "b_account")
    /\ loc = (IF script = "improved" THEN ImprovedLocals ELSE BotLocals)
    /\ submitted = <<>>
    /\ closeReqs = <<>>
    /\ fn = ""
    /\ args = <<>>
    /\ result = NoContract

Next ==
    \/ EntryPositions
    \/ EntryVolatility
    \/ EntryPrice
    \/ EntrySelect
    \/ EntryMarket
    \/ EntryAccount
    \/ EntryOrder
    \/ EntryDone
    \/ ManagePositions
    \/ ManageReview
    \/ ManageEntries
    \/ BotAccount
    \/ BotHV
    \/ BotIV
    \/ StraddleChain
    \/ StraddlePrice
    \/ StraddleCall
    \/ StraddlePut
    \/ MonitorIV
    \/ MonitorCallValue
    \/ MonitorPutValue
    \/ MonitorChecked
    \/ MonitorCloseCall
    \/ MonitorClosePut
    \/ MonitorError
    \/ ClockTick
    \/ Interrupt

Spec == Init /\ [][Next]_vars

(***************************************************************************)
(* FairSpec: the scripts keep running (a sleep ends, a call returns), the  *)
(* clock keeps turning, and the broker and the market do not withhold for  *)
(* ever what they grant again and again: a position's values that call for *)
(* an exit, and the acceptance of a close request.                         *)
(***************************************************************************)
\* a step of the script, as opposed to one of the clock
ScriptStep == Next /\ marketOpen' = marketOpen

\* the broker answers get_position for the call leg
CallValued == MonitorCallValue /\ pc' = "m_put_value"

\* monitor_positions reads both legs' values and decides to exit
ExitDecided == MonitorPutValue /\ pc' = "m_close_call"

\* the broker accepts a close request
CallClosed == MonitorCloseCall /\ broker' # broker
PutClosed == MonitorClosePut /\ broker' # broker
ReviewClosed == ManageReview /\ broker' # broker

FairSpec ==
    /\ Spec
    /\ WF_vars(ScriptStep)
    /\ WF_vars(ClockTick)
    /\ SF_vars(CallValued)
    /\ SF_vars(ExitDecided)
    /\ SF_vars(CallClosed)
    /\ SF_vars(PutClosed)
    /\ SF_vars(ReviewClosed)

(***************************************************************************)
(* SpecSelect: find_nearest_strike_contract applied to every list of at    *)
(* most MaxLen contracts of one underlying and one expiration.             *)
(***************************************************************************)
ListedContracts ==
    {Contract(SPY, 1, k, s) : k \in Kinds, s \in Strikes}

ContractLists ==
    UNION {[1..n -> ListedContracts] : n \in 0..MaxLen}

TargetPrices == 0..(MaxStrike + 1)

\* the scripts' variables in a specification that only applies a function
NoScript ==
    /\ script = ""
    /\ broker = {}
    /\ marketOpen = FALSE
    /\ pc = ""
    /\ loc = <<>>
    /\ submitted = <<>>
    /\ closeReqs = <<>>

InitSelect ==
    /\ NoScript
    /\ fn = "find_nearest_strike_contract"
    /\ args \in [contracts : ContractLists, target_price : TargetPrices,
                 is_call : BOOLEAN, otm_only : BOOLEAN]
    /\ result = NoContract

SelectNearest ==
    /\ fn = "find_nearest_strike_contract"
    /\ fn' = "returned"
    /\ result' = find_nearest_strike_contract(args.contracts, args.target_price,
                                               args.is_call, args.otm_only)
    /\ UNCHANGED <<args, script, broker, marketOpen, pc, loc, submitted, closeReqs>>

NextSelect == SelectNearest

SpecSelect == InitSelect /\ [][NextSelect]_vars

(***************************************************************************)
(* SpecSize: the position size of lines 519-521 for buying powers from     *)
(* -1000 to 5000 dollars and the straddle costs the close prices give.     *)
(***************************************************************************)
SizeBuyingPowers == {100 * k : k \in -10..50}

SizeCosts ==
    {StraddleCost(c, p) : c \in ClosePrices, p \in ClosePrices} \ {0}

InitSize ==
    /\ NoScript
    /\ fn = "position_size"
    /\ args \in [options_buying_power : SizeBuyingPowers, cost_basis : SizeCosts]
    /\ result = None

ApplySize ==
    /\ fn = "position_size"
    /\ fn' = "returned"
    /\ result' = PositionSize(args.options_buying_power, args.cost_basis)
    /\ UNCHANGED <<args, script, broker, marketOpen, pc, loc, submitted, closeReqs>>

NextSize == ApplySize

SpecSize == InitSize /\ [][NextSize]_vars

(***************************************************************************)
(* SpecSuitable: find_suitable_contracts applied to every chain over the   *)
(* expirations and strikes, and every price.                               *)
(***************************************************************************)
InitSuitable ==
    /\ NoScript
    /\ fn = "find_suitable_contracts"
    /\ args \in [symbol : {SPY}, listing : SUBSET (Expirations \X Strikes),
                 ok : BOOLEAN,
                 current_price : Prices \cup {None}]
    /\ result = <<NoContract, NoContract>>

SelectSuitable ==
    /\ fn = "find_suitable_contracts"
    /\ fn' = "returned"
    /\ result' = find_suitable_contracts(
                     get_option_contracts(args.symbol, args.listing, args.ok),
                     args.current_price)
    /\ UNCHANGED <<args, script, broker, marketOpen, pc, loc, submitted, closeReqs>>

NextSuitable == SelectSuitable

SpecSuitable == InitSuitable /\ [][NextSuitable]_vars

(***************************************************************************)
(* SpecReview: the review loop of manage_open_positions applied to a       *)
(* snapshot that holds the two legs of one straddle, the broker accepting  *)
(* no close request.                                                       *)
(***************************************************************************)
\* market_value of a leg in the snapshot, in dollars
ReviewValues == MarketValues \cup {900, 1050, 1200}

\* the position objects of the snapshot
SnapshotPosition(sym, cost_basis, market_value) ==
    [symbol |-> sym, cost_basis |-> cost_basis, market_value |-> market_value]

Snapshots ==
    {<<SnapshotPosition(OccSymbol(SPY, 1, k1, 2), c1, v1),
       SnapshotPosition(OccSymbol(SPY, 1, k2, 2), c2, v2)>> :
         <<k1, k2>> \in {<<"call", "put">>, <<"put", "call">>},
         c1 \in CostBases, c2 \in CostBases,
         v1 \in ReviewValues, v2 \in ReviewValues}

\* lines 421-462: the close requests of the whole loop, in order
RECURSIVE ReviewLoop(_, _)
ReviewLoop(positions, i) ==
    IF i > Len(positions)
    THEN <<>>
    ELSE ReviewCloses(positions[i].symbol,
                      [k \in 1..Len(positions) |-> positions[k].symbol],
                      positions[i].market_value, positions[i].cost_basis)
         \o ReviewLoop(positions, i + 1)

InitReview ==
    /\ NoScript
    /\ fn = "manage_open_positions"
    /\ args \in [positions : Snapshots]
    /\ result = <<>>

ReviewSnapshot ==
    /\ fn = "manage_open_positions"
    /\ fn' = "returned"
    /\ result' = ReviewLoop(args.positions, 1)
    /\ UNCHANGED <<args, script, broker, marketOpen, pc, loc, submitted, closeReqs>>

NextReview == ReviewSnapshot

SpecReview == InitReview /\ [][NextReview]_vars

(***************************************************************************)
(* SpecExit: the review loop applied to a snapshot that holds the two legs *)
(* of one straddle on any symbol of the universe, of which the first       *)
(* reviewed has crossed a threshold and the other has not.                 *)
(***************************************************************************)
\* market values beyond the two thresholds, for a cost basis of 1000
ExitValues == {950, 1200}

ExitSnapshots ==
    {<<SnapshotPosition(OccSymbol(und, e, k1, x), 1000, v),
       SnapshotPosition(OccSymbol(und, e, k2, x), 1000, 1000)>> :
         <<k1, k2>> \in {<<"call", "put">>, <<"put", "call">>},
         und \in {AllSymbols[i] : i \in 1..Len(AllSymbols)},
         e \in Expirations, x \in Strikes, v \in ExitValues}

InitExit ==
    /\ NoScript
    /\ fn = "manage_open_positions"
    /\ args \in [legs : ExitSnapshots]
    /\ result = <<>>

ReviewExit ==
    /\ fn = "manage_open_positions"
    /\ fn' = "returned"
    /\ result' = ReviewLoop(args.legs, 1)
    /\ UNCHANGED <<args, script, broker, marketOpen, pc, loc, submitted, closeReqs>>

NextExit == ReviewExit

SpecExit == InitExit /\ [][NextExit]_vars

(***************************************************************************)
(* SpecCost: the cost of one straddle of line 519 for the close prices of  *)
(* the two contracts selected.                                             *)
(***************************************************************************)
\* close_price of a contract, in cents
QuotedPrices == {25 * k : k \in 0..7}

InitCost ==
    /\ NoScript
    /\ fn = "cost_basis"
    /\ args \in [call_close : QuotedPrices, put_close : QuotedPrices]
    /\ result = None

ApplyCost ==
    /\ fn = "cost_basis"
    /\ fn' = "returned"
    /\ result' = StraddleCost(args.call_close, args.put_close)
    /\ UNCHANGED <<args, script, broker, marketOpen, pc, loc, submitted, closeReqs>>

NextCost == ApplyCost

SpecCost == InitCost /\ [][NextCost]_vars

(***************************************************************************)
(* The claims.                                                             *)
(***************************************************************************)
\* a step in which the script submits an order
Submits == pc' # pc /\ submitted' # <<>>

\* C1: no entry order for a symbol is submitted while the broker holds a
\* position whose symbol starts with it (improved_options.py, whose entry is
\* one order).
C1_NoEntryWhilePositionOpen ==
    [][(script = "improved" /\ Submits)
           => ~PositionExists(broker, submitted'[1].underlying)]_vars

\* C2: the scripts are past the entry decision, up to the submission of the
\* order, only with current IV strictly above 1.2 times the historical
\* volatility.
C2_EntryOnlyAboveThreshold ==
    /\ (script = "improved"
            /\ pc \in {"e_price", "e_select", "e_market", "e_account", "e_order", "e_done"})
        => 10 * loc.entry.current_iv > 12 * loc.entry.historical_iv
    /\ (script = "bot" /\ pc \in {"x_chain", "x_price", "x_call", "x_put"})
        => 10 * loc.current_iv > 12 * loc.hv

\* C2 witness: an order the broker took, decided with a historical volatility
\* of 5 and a current IV of 7
C2_Witness ==
    /\ script = "improved"
    /\ pc = "e_done"
    /\ submitted # <<>>
    /\ submitted[1].accepted
    /\ loc.entry.historical_iv = 5
    /\ loc.entry.current_iv = 7

\* C3: every order submitted has a quantity of at least 1.
C3_QuantityAtLeastOne ==
    \A i \in DOMAIN submitted : submitted[i].qty >= 1

Clamp(x, lo, hi) == IF x < lo THEN lo ELSE IF x > hi THEN hi ELSE x

\* C4: the position size is floor(buying power / cost) clamped to [0, 1].
C4_QuantityIsClampedFloor ==
    (fn = "returned" /\ "cost_basis" \in DOMAIN args)
        => result = Clamp(args.options_buying_power \div args.cost_basis, 0, 1)

\* a contract of the kind asked for that the OTM filter lets through
Eligible(contract, a) ==
    /\ contract.type = (IF a.is_call THEN "call" ELSE "put")
    /\ a.otm_only =>
           IF a.is_call
           THEN contract.strike_price > a.target_price
           ELSE contract.strike_price < a.target_price

EligibleAt(a) ==
    {i \in 1..Len(a.contracts) : Eligible(a.contracts[i], a)}

\* C5: find_nearest_strike_contract returns None exactly when no contract is
\* eligible, and otherwise an eligible contract of the list none of the
\* eligible ones is nearer to the target than.
C5_NearestEligible ==
    (fn = "returned" /\ "contracts" \in DOMAIN args)
        => /\ (result = NoContract) <=> (EligibleAt(args) = {})
           /\ result # NoContract =>
                  \E i \in EligibleAt(args) :
                      /\ args.contracts[i] = result
                      /\ \A k \in EligibleAt(args) :
                             Abs(result.strike_price - args.target_price)
                                 <= Abs(args.contracts[k].strike_price - args.target_price)

\* C5 witness: a contract returned under the OTM filter although a contract
\* of the same kind the filter excludes is nearer, and an eligible one farther
C5_Witness ==
    /\ fn = "returned"
    /\ "contracts" \in DOMAIN args
    /\ args.otm_only
    /\ result # NoContract
    /\ \E i \in 1..Len(args.contracts) :
           /\ args.contracts[i].type = result.type
           /\ i \notin EligibleAt(args)
           /\ Abs(args.contracts[i].strike_price - args.target_price)
                  < Abs(result.strike_price - args.target_price)
    /\ \E k \in EligibleAt(args) :
           Abs(args.contracts[k].strike_price - args.target_price)
               > Abs(result.strike_price - args.target_price)

\* C6: a position whose market value is strictly between the stop-loss level
\* and 1.2 times its cost is not closed by the review.
C6_NoCloseBelowProfitTarget ==
    (/\ script = "improved"
     /\ loc.position # NoPosition
     /\ 100 * loc.position.market_value > 95 * loc.position.cost_basis
     /\ 10 * loc.position.market_value < 12 * loc.position.cost_basis)
        => closeReqs = <<>>

\* C7: a leg that the broker holds no position in raises no error in the
\* review and exit of a straddle.
C7_AbsentLegIsNoError ==
    ~(/\ script = "bot"
      /\ pc = "m_error"
      /\ loc.error = "position does not exist")

\* C8: with fewer than 20 closing prices the historical volatility is
\* unavailable (None, or the 0.0 of alpaca_options_bot.py).
C8_FewPricesUnavailable ==
    /\ (script = "improved" /\ loc.entry.n_prices # None /\ loc.entry.n_prices < 20)
        => loc.entry.historical_iv = None
    /\ (script = "bot" /\ loc.n_closes # None /\ loc.n_closes < 20)
        => loc.hv \in {None, 0}

SameUnderlyingAndExpiration(call_contract, put_contract) ==
    /\ call_contract.underlying = put_contract.underlying
    /\ call_contract.expiration_date = put_contract.expiration_date

\* C9: the call and the put of a submitted straddle order, and of a recorded
\* StraddlePosition, have the same underlying and the same expiration.
C9_SameUnderlyingAndExpiration ==
    /\ \A i \in DOMAIN submitted :
           submitted[i].order_class = "mleg"
               => SameUnderlyingAndExpiration(submitted[i].legs[1],
                                              submitted[i].legs[2])
    /\ script = "bot"
        => \A k \in DOMAIN loc.active_positions :
               SameUnderlyingAndExpiration(loc.active_positions[k].call_contract,
                                           loc.active_positions[k].put_contract)

\* C10: no order is submitted on a historical volatility of zero.
C10_NoEntryOnZeroHV ==
    /\ (script = "improved" /\ submitted # <<>>) => loc.entry.historical_iv # 0
    /\ (script = "bot" /\ submitted # <<>> /\ pc = "x_put") => loc.hv # 0

\* the positions of execute_volatility_straddle
EntryPcs ==
    {"e_positions", "e_volatility", "e_price", "e_select", "e_market",
     "e_account", "e_order", "e_done"}

\* C11: a failure in the evaluation of one symbol does not end the pass: from
\* the evaluation of a symbol that is not the last one, improved_options.py
\* goes on within the pass over the symbols.
C11_FailureStaysInSymbol ==
    [][(script = "improved" /\ pc \in EntryPcs /\ loc.idx < Len(symbols))
           => pc' \in EntryPcs]_vars

\* C12: an entry order is submitted only while the market is open.
C12_NoOrderWhileClosed ==
    [][Submits => marketOpen]_vars

\* C13: no order is submitted in a cycle in which the historical volatility
\* or the current IV of the symbol is unavailable: improved_options.py has
\* both values when it submits, and alpaca_options_bot.py has read at least 20
\* closes when the broker has taken its call order.
C13_NoOrderWhenUnavailable ==
    /\ (script = "improved" /\ submitted # <<>>)
        => /\ loc.entry.historical_iv # None
           /\ loc.entry.current_iv # None
    /\ (script = "bot" /\ pc = "x_put")
        => /\ loc.n_closes # None
           /\ loc.n_closes >= 20

\* C15: when the broker rejects the put order, or the record of the position
\* cannot be built, execute_straddle returns with no leg of the straddle held
\* at the broker.
C15_FailedEntryLeavesNoLeg ==
    [][(script = "bot" /\ pc = "x_put" /\ pc' = "b_account")
           => /\ loc.call.symbol \notin broker'
              /\ loc.put.symbol \notin broker']_vars

\* C16: no failure of a call ends the script: it is never past its loops.
C16_LoopNeverStops ==
    pc \notin {"crashed", "stopped"}

\* the contracts of a kind that find_suitable_contracts chooses among
OfKind(a, kind) ==
    LET contracts == get_option_contracts(a.symbol, a.listing, a.ok)
    IN  {contracts[i] : i \in {k \in 1..Len(contracts) : contracts[k].type = kind}}

NearestOfKind(contract, a, kind) ==
    /\ contract \in OfKind(a, kind)
    /\ \A other \in OfKind(a, kind) :
           Abs(contract.strike_price - a.current_price)
               <= Abs(other.strike_price - a.current_price)

\* C18: the call and the put find_suitable_contracts returns have the
\* strikes nearest to the price among all the contracts of their kind of the
\* chain, and so, calls and puts being listed at the same strikes, the same
\* strike.
C18_LegsNearestOfAll ==
    (/\ fn = "returned"
     /\ "listing" \in DOMAIN args
     /\ result[1] # NoContract
     /\ result[2] # NoContract)
        => /\ NearestOfKind(result[1], args, "call")
           /\ NearestOfKind(result[2], args, "put")
           /\ result[1].strike_price = result[2].strike_price

\* C19: while the sum of the two legs' market values is inside the band of
\* the two thresholds on the sum of their costs, the review asks for no close.
C19_CloseOnCombinedValue ==
    (/\ fn = "returned"
     /\ "positions" \in DOMAIN args
     /\ LET value == args.positions[1].market_value + args.positions[2].market_value
            cost == args.positions[1].cost_basis + args.positions[2].cost_basis
        IN  ~TakeProfit(value, cost) /\ ~StopLoss(value, cost))
        => result = <<>>

\* C20: monitor_positions is about to close a straddle whose P/L is inside
\* the band only when get_current_iv succeeded and returned less than 0.8
\* times the entry IV.
C20_CloseOnlyOnObtainedIV ==
    (script = "bot" /\ pc = "m_close_call")
        => \/ 2 * Abs(loc.call_value + loc.put_value - pos.entry_price)
                  >= pos.entry_price
           \/ /\ loc.iv_error = ""
              /\ 10 * loc.current_iv < 8 * pos.entry_iv

\* a close request of monitor_positions has just failed
CloseFailed ==
    /\ script = "bot"
    /\ pc = "m_error"
    /\ loc.error = "request failed"
    /\ closeReqs # <<>>

\* C14: after a failed close request the legs are eventually closed and the
\* record of the straddle is dropped, the broker accepting close requests
\* again and again, unless the user stops the script.
C14_FailedCloseIsRetried ==
    CloseFailed ~> (script = "bot" /\ (loc.active_positions = <<>>
                                          \/ pc = "interrupted"))

\* C17: every symbol that has no open straddle is evaluated for entry again
\* and again, as long as the script runs.
C17_IdleSymbolsEvaluatedAgain ==
    /\ \A i \in 1..NumSymbols :
           []<>(script = "improved"
                    => \/ pc = "crashed"
                       \/ PositionExists(broker, symbols[i])
                       \/ pc = "e_positions" /\ loc.idx = i)
    /\ []<>(script = "bot"
                => \/ pc \in {"stopped", "interrupted"}
                   \/ loc.active_positions # <<>>
                   \/ pc = "b_account")

\* C21: when one leg of a straddle in the snapshot has crossed a threshold,
\* the review asks the broker to close both legs, for every underlying of
\* the universe and whichever leg it was.
C21_ExitClosesBothLegs ==
    (fn = "returned" /\ "legs" \in DOMAIN args)
        => \A k \in 1..2 :
               \E i \in 1..Len(result) : result[i] = args.legs[k].symbol

\* C22: the cost of one straddle that the position is sized with is
\* (call price + put price) * 100.
C22_CostIsHundredTimesPrices ==
    (fn = "returned" /\ "call_close" \in DOMAIN args)
        => result = (args.call_close + args.put_close) * 100

\* C23: of the eligible contracts that are nearest to the target,
\* find_nearest_strike_contract returns the one that comes first in the list:
\* every eligible contract before it is strictly farther.
C23_FirstOfTheNearest ==
    (fn = "returned" /\ "contracts" \in DOMAIN args /\ result # NoContract)
        => \E i \in EligibleAt(args) :
               /\ args.contracts[i] = result
               /\ \A k \in EligibleAt(args) :
                      k < i => Abs(args.contracts[k].strike_price - args.target_price)
                                   > Abs(result.strike_price - args.target_price)

\* C23 witness: another eligible contract, later in the list, is as near to
\* the target as the one returned
C23_Witness ==
    /\ fn = "returned"
    /\ "contracts" \in DOMAIN args
    /\ result # NoContract
    /\ args.contracts[1] = result
    /\ \E k \in EligibleAt(args) :
           /\ k > 1
           /\ args.contracts[k] # result
           /\ Abs(args.contracts[k].strike_price - args.target_price)
                  = Abs(result.strike_price - args.target_price)

\* the call order of an entry has been taken and the put order is not yet
\* submitted
MidEntry ==
    /\ submitted # <<>>
    /\ submitted[1].accepted
    /\ submitted[1].legs[1].type = "call"

\* the call leg of an exit has been closed and the close of the put leg is
\* not yet requested
MidExit ==
    /\ loc.active_positions # <<>>
    /\ closeReqs = <<pos.call_contract.symbol>>
    /\ loc.error = ""

\* C24: the script is never stopped by the user between the requests for the
\* two legs of one straddle.
C24_NeverStoppedMidOrder ==
    (script = "bot" /\ pc = "interrupted") => ~MidEntry /\ ~MidExit

\* C25: the record of a straddle leaves active_positions only in the step in
\* which the broker closes its put leg, after it has closed its call leg; and
\* when a close request has just failed the record is still there.
C25_DroppedOnlyAfterBothClosed ==
    /\ [][(script = "bot" /\ loc.active_positions # <<>>
                          /\ loc'.active_positions = <<>>)
              => /\ pc = "m_close_put"
                 /\ pos.call_contract.symbol \notin broker
                 /\ pos.put_contract.symbol \in broker
                 /\ pos.put_contract.symbol \notin broker']_vars
    /\ []((script = "bot" /\ pc = "m_error" /\ closeReqs # <<>>)
              => loc.active_positions # <<>>)

\* C25 witness: the record has just been dropped with the close of the put leg
C25_Witness ==
    /\ script = "bot"
    /\ pc = "m_iv"
    /\ closeReqs # <<>>
    /\ loc.active_positions = <<>>
    /\ broker = {}

\* C26: one pass of the review over a snapshot asks the broker at most once
\* to close any one symbol.
C26_OneCloseRequestPerSymbol ==
    (fn = "returned" /\ "positions" \in DOMAIN args)
        => \A i \in 1..Len(result) : \A k \in 1..Len(result) :
               i # k => result[i] # result[k]

=============================================================================
